---------------------------- MODULE Spec2Model ----------------------------
(***************************************************************************)
(* Model of src/main.py ("Excel to TV Display"): the grid-to-markup         *)
(* renderer (get_week_dates, format_date_cell, format_cell_value,           *)
(* get_cell_style, detect_date_rows, sheet_to_html), the sheet listings    *)
(* (filter_sheets, get_sheets, the selector of the main page), the          *)
(* sheet render cache (convert_excel_file over the module globals           *)
(* sheets_cache / sheets_cache_mtime) and the upload handler.               *)
(*                                                                          *)
(* Conventions.                                                             *)
(*  - A Python str whose characters matter (cell text, sheet names, RGB     *)
(*    codes) is a sequence of one-character strings; Str() joins it into    *)
(*    the TLA+ string that is written to the markup.                        *)
(*  - A datetime.date is its proleptic Gregorian ordinal (date.toordinal). *)
(*  - None is the empty sequence for a list/str argument and 0 for an       *)
(*    int argument (row_idx, col_idx, year): both are falsy like None.      *)
(*  - A call that may raise returns [ok |-> BOOLEAN, val |-> ...].          *)
(*  - The markup of one sheet is the sequence of its <tr> rows, each the    *)
(*    sequence of its <td> cells [style, colspan, rowspan, value]; span 0   *)
(*    means the attribute is not written.                                   *)
(***************************************************************************)
EXTENDS Integers, Sequences, FiniteSets, TLC

(***************************************************************************)
(* Generic helpers                                                          *)
(***************************************************************************)
RECURSIVE Str(_)
Str(chars) == IF chars = <<>> THEN "" ELSE Head(chars) \o Str(Tail(chars))

RECURSIVE Join(_, _)
Join(sep, parts) ==
    IF parts = <<>> THEN ""
    ELSE IF Len(parts) = 1 THEN parts[1]
    ELSE parts[1] \o sep \o Join(sep, Tail(parts))

SetMax(S) == CHOOSE m \in S : \A x \in S : x <= m

Range(f) == {f[i] : i \in DOMAIN f}

DigitChars == <<"0", "1", "2", "3", "4", "5", "6", "7", "8", "9">>

DigitVal(ch) == (CHOOSE i \in 1..10 : DigitChars[i] = ch) - 1

\* str.isdigit() on an ASCII string: non-empty and all characters digits
isdigit(chars) == chars # <<>> /\ \A i \in 1..Len(chars) : chars[i] \in Range(DigitChars)

\* int(s) of a digit string
RECURSIVE int(_)
int(chars) ==
    IF chars = <<>> THEN 0
    ELSE 10 * int(SubSeq(chars, 1, Len(chars) - 1)) + DigitVal(chars[Len(chars)])

\* value.startswith('=')
startswith_eq(chars) == chars # <<>> /\ chars[1] = "="

\* "%02d"
Pad2(n) == IF n < 10 THEN "0" \o ToString(n) ELSE ToString(n)

(***************************************************************************)
(* datetime.date arithmetic (proleptic Gregorian ordinals)                  *)
(***************************************************************************)
IsLeap(y) == (y % 4 = 0) /\ ((y % 100 # 0) \/ (y % 400 = 0))

DaysBeforeYear(y) ==
    LET p == y - 1 IN p * 365 + (p \div 4) - (p \div 100) + (p \div 400)

DaysInMonth(y, m) ==
    IF m = 2 THEN (IF IsLeap(y) THEN 29 ELSE 28)
    ELSE IF m \in {4, 6, 9, 11} THEN 30 ELSE 31

RECURSIVE DaysBeforeMonth(_, _)
DaysBeforeMonth(y, m) ==
    IF m = 1 THEN 0 ELSE DaysBeforeMonth(y, m - 1) + DaysInMonth(y, m - 1)

\* date(y, m, d)
date(y, m, d) == DaysBeforeYear(y) + DaysBeforeMonth(y, m) + d

\* date.weekday(): Monday is 0
weekday(ord) == (ord + 6) % 7

YearOf(ord) ==
    CHOOSE y \in (ord \div 366)..((ord \div 365) + 1) :
        DaysBeforeYear(y) < ord /\ ord <= DaysBeforeYear(y + 1)

MonthOf(ord) ==
    LET y == YearOf(ord)
        n == ord - DaysBeforeYear(y)
    IN  CHOOSE m \in 1..12 :
            DaysBeforeMonth(y, m) < n /\ n <= DaysBeforeMonth(y, m) + DaysInMonth(y, m)

DayOf(ord) ==
    LET y == YearOf(ord) IN ord - DaysBeforeYear(y) - DaysBeforeMonth(y, MonthOf(ord))

\* date.strftime("%d-%m-%Y")
strftime_dmy(ord) ==
    Pad2(DayOf(ord)) \o "-" \o Pad2(MonthOf(ord)) \o "-" \o ToString(YearOf(ord))

(***************************************************************************)
(* get_week_dates, format_date_cell, format_cell_value                      *)
(***************************************************************************)
NoYear == 0

\* get_week_dates with week 1 taken as the week of January 1st
get_week_dates_from_jan_1(week_num, year_arg, now_year) ==
    LET y == IF year_arg = NoYear THEN now_year ELSE year_arg
        jan_1 == date(y, 1, 1)
        week_1_monday == jan_1 - weekday(jan_1)
        target_monday == week_1_monday + 7 * (week_num - 1)
    IN  [i \in 1..7 |-> target_monday + (i - 1)]

\* get_week_dates(week_num, year=None); now_year is datetime.now().year
get_week_dates(week_num, year_arg, now_year) ==
    LET y == IF year_arg = NoYear THEN now_year ELSE year_arg
        jan_4 == date(y, 1, 4)
        week_1_monday == jan_4 - weekday(jan_4)
        target_monday == week_1_monday + 7 * (week_num - 1)
    IN  [i \in 1..7 |-> target_monday + (i - 1)]

jours == <<"Lundi", "Mardi", "Mercredi", "Jeudi", "Vendredi", "Samedi", "Dimanche">>

format_date_cell(day_date) ==
    LET day_name == jours[weekday(day_date) + 1]
        date_str == strftime_dmy(day_date)
    IN  day_name \o "<br/>" \o date_str

\* Cell values: None, str, int, date, datetime, time
VNone == [kind |-> "none", s |-> <<>>, n |-> 0]
VStr(chars) == [kind |-> "str", s |-> chars, n |-> 0]
VInt(k) == [kind |-> "int", s |-> <<>>, n |-> k]
VDate(ord) == [kind |-> "date", s |-> <<>>, n |-> ord]
VDateTime(ord) == [kind |-> "datetime", s |-> <<>>, n |-> ord]
VTime == [kind |-> "time", s |-> <<>>, n |-> 0]

\* bool(value)
truthy(value) ==
    CASE value.kind = "none" -> FALSE
      [] value.kind = "str" -> value.s # <<>>
      [] value.kind = "int" -> value.n # 0
      [] OTHER -> TRUE

\* hasattr(value, 'strftime')
has_strftime(value) == value.kind \in {"date", "datetime", "time"}

\* str(value)
str(value) ==
    CASE value.kind = "str" -> Str(value.s)
      [] value.kind = "int" -> ToString(value.n)
      [] OTHER -> ""

\* Lines 71 and 84 counting the rows from row 1: (row_idx - 1) % 7
reconstruct_from_first_row(row_idx, week_dates) ==
    LET day_index == (row_idx - 1) % 7
    IN  IF day_index + 1 \in DOMAIN week_dates
        THEN format_date_cell(week_dates[day_index + 1])
        ELSE ""

\* The date reconstructed from the row position (lines 71-73 and 84-86);
\* an index past the end of week_dates raises, which the handler at
\* lines 89-90 turns into "".
reconstruct(row_idx, week_dates) ==
    LET day_index == (row_idx - 2) % 7
    IN  IF day_index + 1 \in DOMAIN week_dates
        THEN format_date_cell(week_dates[day_index + 1])
        ELSE ""

format_cell_value(value, row_idx, col_idx, week_dates, is_date_row) ==
    IF value.kind = "str" /\ startswith_eq(value.s)
    THEN IF is_date_row /\ col_idx = 1 /\ week_dates # <<>> /\ row_idx # 0
         THEN reconstruct(row_idx, week_dates)
         ELSE ""
    ELSE IF truthy(value) /\ has_strftime(value)
    THEN \* a datetime.time has no weekday(): the exception yields ""
         IF value.kind = "time" THEN "" ELSE format_date_cell(value.n)
    ELSE IF (value.kind = "none" \/ (value.kind = "str" /\ value.s = <<>>))
            /\ is_date_row /\ col_idx = 1 /\ week_dates # <<>> /\ row_idx # 0
    THEN reconstruct(row_idx, week_dates)
    ELSE IF value.kind # "none" THEN str(value) ELSE ""

(***************************************************************************)
(* Cells and worksheets                                                     *)
(*                                                                          *)
(* A cell is [value, fill, font, alignment, raises]; raises is the set of   *)
(* attribute accesses of that cell that raise an exception, named by their  *)
(* path ("font.bold", "fill.start_color.rgb", ...).  A worksheet is         *)
(* [cells, merged]: cells maps the coordinates <<row, col>> that hold       *)
(* something to their cell, merged is ws.merged_cells.ranges, a sequence    *)
(* of [min_row, max_row, min_col, max_col].                                 *)
(***************************************************************************)
NoFill == [has |-> TRUE, color_has |-> TRUE, rgb |-> <<"0", "0", "0", "0", "0", "0", "0", "0">>]
NoFont == [has |-> TRUE, color_has |-> FALSE, rgb |-> <<>>, bold |-> FALSE, italic |-> FALSE]
NoAlignment == [has |-> TRUE, horizontal |-> "", vertical |-> ""]

\* The cell ws.cell(row, col) creates where the sheet holds none
EmptyCell ==
    [value |-> VNone, fill |-> NoFill, font |-> NoFont, alignment |-> NoAlignment,
     raises |-> {}]

\* ws.cell(row, col)
ws_cell(ws, row, col) ==
    IF <<row, col>> \in DOMAIN ws.cells THEN ws.cells[<<row, col>>] ELSE EmptyCell

\* ws.max_row: the last row that holds a cell (1 on an empty sheet)
ws_max_row(ws) ==
    SetMax({1} \cup {rc[1] : rc \in DOMAIN ws.cells}
               \cup {ws.merged[i].max_row : i \in DOMAIN ws.merged})

Letters ==
    <<"A", "B", "C", "D", "E", "F", "G", "H", "I", "J", "K", "L", "M",
      "N", "O", "P", "Q", "R", "S", "T", "U", "V", "W", "X", "Y", "Z">>

\* openpyxl.utils.get_column_letter
RECURSIVE get_column_letter(_)
get_column_letter(col) ==
    IF col = 0 THEN ""
    ELSE get_column_letter((col - 1) \div 26) \o Letters[((col - 1) % 26) + 1]

\* cell.coordinate, and the key f"{get_column_letter(col)}{row}"
coordinate(row, col) == get_column_letter(col) \o ToString(row)

(***************************************************************************)
(* get_cell_style                                                           *)
(***************************************************************************)
Ok(v) == [ok |-> TRUE, val |-> v]
Raised == [ok |-> FALSE, val |-> <<>>]

\* The declaration for one colour, were "00000000" the only value skipped
color_decl_sentinel_only(prop, rgb) ==
    IF rgb # <<>> /\ Str(rgb) # "00000000"
    THEN LET hex_color == IF Len(rgb) > 6 THEN SubSeq(rgb, Len(rgb) - 5, Len(rgb)) ELSE rgb
         IN  <<prop \o ": #" \o Str(hex_color)>>
    ELSE <<>>

\* Lines 98-102 and 108-112: the declaration for one colour, inside try
color_decl(prop, rgb) ==
    IF rgb # <<>> /\ Str(rgb) # "00000000"
    THEN LET hex_color == IF Len(rgb) > 6 THEN SubSeq(rgb, Len(rgb) - 5, Len(rgb)) ELSE rgb
         IN  IF Str(hex_color) # "000000"
             THEN <<prop \o ": #" \o Str(hex_color)>>
             ELSE <<>>
    ELSE <<>>

\* Lines 96-104
style_fill(cell) ==
    IF "fill" \in cell.raises THEN Raised
    ELSE IF ~cell.fill.has THEN Ok(<<>>)
    ELSE IF "fill.start_color" \in cell.raises THEN Raised
    ELSE IF ~cell.fill.color_has THEN Ok(<<>>)
    ELSE IF "fill.start_color.rgb" \in cell.raises THEN Ok(<<>>)
    ELSE Ok(color_decl("background-color", cell.fill.rgb))

\* Lines 106-114
style_font_color(cell) ==
    IF "font" \in cell.raises THEN Raised
    ELSE IF ~cell.font.has THEN Ok(<<>>)
    ELSE IF "font.color" \in cell.raises THEN Raised
    ELSE IF ~cell.font.color_has THEN Ok(<<>>)
    ELSE IF "font.color.rgb" \in cell.raises THEN Ok(<<>>)
    ELSE Ok(color_decl("color", cell.font.rgb))

\* Lines 116-120
style_font_flags(cell) ==
    IF "font" \in cell.raises THEN Raised
    ELSE IF ~cell.font.has THEN Ok(<<>>)
    ELSE IF "font.bold" \in cell.raises THEN Raised
    ELSE IF "font.italic" \in cell.raises THEN Raised
    ELSE Ok((IF cell.font.bold THEN <<"font-weight: bold">> ELSE <<>>)
            \o (IF cell.font.italic THEN <<"font-style: italic">> ELSE <<>>))

\* Lines 122-126
style_alignment(cell) ==
    IF "alignment" \in cell.raises THEN Raised
    ELSE IF ~cell.alignment.has THEN Ok(<<>>)
    ELSE IF "alignment.horizontal" \in cell.raises THEN Raised
    ELSE IF "alignment.vertical" \in cell.raises THEN Raised
    ELSE Ok((IF cell.alignment.horizontal = "center" THEN <<"text-align: center">> ELSE <<>>)
            \o (IF cell.alignment.vertical = "center" THEN <<"vertical-align: middle">> ELSE <<>>))

\* The list `styles` at line 128, or the exception that left the function
cell_styles(cell) ==
    LET parts == <<style_fill(cell), style_font_color(cell),
                   style_font_flags(cell), style_alignment(cell)>>
    IN  IF \E i \in 1..4 : ~parts[i].ok THEN Raised
        ELSE Ok(parts[1].val \o parts[2].val \o parts[3].val \o parts[4].val)

get_cell_style(cell) ==
    LET styles == cell_styles(cell)
    IN  IF styles.ok THEN Ok(Join("; ", styles.val)) ELSE [ok |-> FALSE, val |-> ""]

(***************************************************************************)
(* detect_date_rows, the merge table, sheet_to_html                         *)
(***************************************************************************)
Min(a, b) == IF a < b THEN a ELSE b

detect_date_rows(ws) ==
    {row_idx \in 1..(Min(30, ws_max_row(ws) + 1) - 1) :
        LET value == ws_cell(ws, row_idx, 1).value
        IN  \/ truthy(value) /\ has_strftime(value)
            \/ value.kind = "str" /\ startswith_eq(value.s)}

\* Lines 159-170 for one range: the entries it writes
range_entries(merged_range) ==
    LET rowspan == merged_range.max_row - merged_range.min_row + 1
        colspan == merged_range.max_col - merged_range.min_col + 1
    IN  [cell_coord \in {coordinate(row, col) :
                             row \in merged_range.min_row..merged_range.max_row,
                             col \in merged_range.min_col..merged_range.max_col} |->
            [rowspan |-> rowspan, colspan |-> colspan,
             is_main |-> cell_coord = coordinate(merged_range.min_row, merged_range.min_col)]]

\* Lines 157-170: a later range overwrites the entries of an earlier one
RECURSIVE merged_cells_dict(_)
merged_cells_dict(ranges) ==
    IF ranges = <<>> THEN <<>>
    ELSE range_entries(ranges[Len(ranges)])
            @@ merged_cells_dict(SubSeq(ranges, 1, Len(ranges) - 1))

max_column == 20
max_row == 29

\* Lines 185-187 without the test of is_main: every member of a merge is
\* skipped
skips_every_member(merged, row_idx, col_idx) ==
    coordinate(row_idx, col_idx) \in DOMAIN merged

\* Lines 185-187: the cell is a non-anchor member of a merge and is skipped
skipped(merged, row_idx, col_idx) ==
    /\ coordinate(row_idx, col_idx) \in DOMAIN merged
    /\ ~merged[coordinate(row_idx, col_idx)].is_main

\* One visited cell, were is_date_row (line 190) the detector's answer
\* alone: row_idx in date_rows
render_cell_detector_only(ws, merged, date_rows, week_dates, row_idx, col_idx) ==
    LET cell == ws_cell(ws, row_idx, col_idx)
        coord == coordinate(row_idx, col_idx)
        is_date_row == row_idx \in date_rows
        value == format_cell_value(cell.value, row_idx, col_idx, week_dates, is_date_row)
        style == get_cell_style(cell)
        in_merge == coord \in DOMAIN merged
    IN  IF ~style.ok THEN Raised
        ELSE Ok([style |-> style.val,
                 colspan |-> IF in_merge /\ merged[coord].colspan > 1
                             THEN merged[coord].colspan ELSE 0,
                 rowspan |-> IF in_merge /\ merged[coord].rowspan > 1
                             THEN merged[coord].rowspan ELSE 0,
                 value |-> value])

\* Lines 189-212 for one visited cell: the <td> line, or the exception of
\* get_cell_style
render_cell(ws, merged, date_rows, week_dates, row_idx, col_idx) ==
    LET cell == ws_cell(ws, row_idx, col_idx)
        coord == coordinate(row_idx, col_idx)
        is_date_row == row_idx \in date_rows \/ (col_idx = 1 /\ week_dates # <<>>)
        value == format_cell_value(cell.value, row_idx, col_idx, week_dates, is_date_row)
        style == get_cell_style(cell)
        in_merge == coord \in DOMAIN merged
    IN  IF ~style.ok THEN Raised
        ELSE Ok([style |-> style.val,
                 colspan |-> IF in_merge /\ merged[coord].colspan > 1
                             THEN merged[coord].colspan ELSE 0,
                 rowspan |-> IF in_merge /\ merged[coord].rowspan > 1
                             THEN merged[coord].rowspan ELSE 0,
                 value |-> value])

\* The list a comprehension builds, element by element
List(f) == <<>> \o f

\* Lines 181-187 for one row: the columns whose cell is not skipped, in order
emitted_cols(merged, row_idx) ==
    SelectSeq(List([c \in 1..max_column |-> c]), LAMBDA c : ~skipped(merged, row_idx, c))

\* One row rendered over the columns 1..ws.max_column (the loop line 179
\* keeps as a comment) instead of 1..max_column
render_row_all_columns(ws, merged, date_rows, week_dates, row_idx) ==
    LET ws_max_column == SetMax({1} \cup {rc[2] : rc \in DOMAIN ws.cells}
                                    \cup {ws.merged[i].max_col : i \in DOMAIN ws.merged})
        cols == SelectSeq(List([c \in 1..ws_max_column |-> c]),
                          LAMBDA c : ~skipped(merged, row_idx, c))
    IN  List([i \in 1..Len(cols) |->
                render_cell(ws, merged, date_rows, week_dates, row_idx, cols[i])])

\* Lines 181-212 for one row: the <td> line (or the exception) of every
\* emitted cell
render_row(ws, merged, date_rows, week_dates, row_idx) ==
    LET cols == emitted_cols(merged, row_idx)
    IN  List([i \in 1..Len(cols) |->
                render_cell(ws, merged, date_rows, week_dates, row_idx, cols[i])])

\* Lines 147-150: the week number of a sheet whose name is a number
NoWeek == -1

\* Line 149 without its test: a sheet whose name is no number is week 1
week_num_or_first(sheet_name) ==
    IF sheet_name # <<>> /\ isdigit(sheet_name) THEN int(sheet_name) ELSE 1

week_num(sheet_name) ==
    IF sheet_name # <<>> /\ isdigit(sheet_name) THEN int(sheet_name) ELSE NoWeek

\* sheet_to_html(ws, sheet_name); now_year is datetime.now().year.  The
\* first exception of get_cell_style leaves the function.
sheet_to_html(ws, sheet_name, now_year) ==
    LET week_dates == IF week_num(sheet_name) # NoWeek
                      THEN get_week_dates(week_num(sheet_name), NoYear, now_year)
                      ELSE <<>>
        date_rows == detect_date_rows(ws)
        merged == merged_cells_dict(ws.merged)
        rows == List([row_idx \in 1..max_row |->
                        render_row(ws, merged, date_rows, week_dates, row_idx)])
    IN  IF \E r \in 1..max_row : \E i \in DOMAIN rows[r] : ~rows[r][i].ok
        THEN Raised
        ELSE Ok(List([r \in 1..max_row |->
                        List([i \in DOMAIN rows[r] |-> rows[r][i].val])]))

(***************************************************************************)
(* filter_sheets and the two sheet listings (GET /sheets, the main page)    *)
(***************************************************************************)
\* \s and \d of the re module on the characters the model uses
Whitespace == {" ", "\t", "\n", "\r"}
all_in(s, from, to, chars) == \A k \in from..to : s[k] \in chars

\* `$`: the end of the string, or just before a newline that ends it
at_end(s, pos) == pos = Len(s) \/ (pos + 1 = Len(s) /\ s[pos + 1] = "\n")

\* The pattern of line 221 without its \s+ : r'.*\(\d+\)$'
re_match_without_space(s) ==
    \E i \in 0..Len(s) : \E k \in (i + 2)..(Len(s) - 1) :
        /\ \A n \in 1..i : s[n] # "\n"
        /\ s[i + 1] = "("
        /\ all_in(s, i + 2, k, Range(DigitChars))
        /\ s[k + 1] = ")"
        /\ at_end(s, k + 1)

\* re.match(r'.*\s+\(\d+\)$', s) is not None: s[1..i] matched by .* (no
\* newline), s[i+1..j] by \s+, s[j+1] by \(, s[j+2..k] by \d+, s[k+1] by \)
re_match(s) ==
    \E i \in 0..Len(s) : \E j \in (i + 1)..Len(s) : \E k \in (j + 2)..(Len(s) - 1) :
        /\ \A n \in 1..i : s[n] # "\n"
        /\ all_in(s, i + 1, j, Whitespace)
        /\ s[j + 1] = "("
        /\ all_in(s, j + 2, k, Range(DigitChars))
        /\ s[k + 1] = ")"
        /\ at_end(s, k + 1)

\* Line 221
filter_sheets(sheets) == SelectSeq(sheets, LAMBDA s : ~re_match(s))

\* list(sheets_html.keys()): a dict keeps the order in which line 239
\* inserted the keys, that of wb.sheetnames ({} has no key)
keys(sheetnames) == sheetnames

\* GET /sheets, lines 372-374, for a mapping with these keys
get_sheets(sheetnames) == Ok(filter_sheets(keys(sheetnames)))

\* The main page, lines 522-538: the <option> elements of the selector;
\* week_str is str(week_num).  sheets[0] raises IndexError on an empty list.
root_options(sheetnames, week_str) ==
    LET sheets == filter_sheets(keys(sheetnames))
    IN  IF week_str \notin Range(sheets) /\ sheets = <<>> THEN Raised
        ELSE LET sheet_name == IF week_str \in Range(sheets) THEN week_str ELSE sheets[1]
             IN  Ok(List([i \in DOMAIN sheets |->
                            [value |-> sheets[i], selected |-> sheets[i] = sheet_name]]))

(***************************************************************************)
(* Workbooks on disk                                                        *)
(*                                                                          *)
(* A workbook is [sheetnames, sheets]: wb.sheetnames and, in the same       *)
(* order, the worksheets wb[sheet_name].  The bytes of a file are named by  *)
(* a content id: 0 is a file openpyxl.load_workbook cannot read (truncated, *)
(* not a workbook), i >= 1 is Workbooks[i].                                 *)
(***************************************************************************)
Cell(value) == [EmptyCell EXCEPT !.value = value]

Yellow == <<"F", "F", "F", "F", "C", "C", "0", "0">>
Red == <<"F", "F", "F", "F", "0", "0", "0", "0">>

TitleCell(value) ==
    [EmptyCell EXCEPT !.value = value,
                      !.fill = [has |-> TRUE, color_has |-> TRUE, rgb |-> Yellow],
                      !.font = [has |-> TRUE, color_has |-> TRUE, rgb |-> Red,
                                bold |-> TRUE, italic |-> FALSE],
                      !.alignment = [has |-> TRUE, horizontal |-> "center", vertical |-> "center"]]

Formula == VStr(<<"=", "A", "1", "+", "1">>)

\* Week sheet "2": title, formula date column, a merge B3:C4, a cell whose
\* font colour cannot be read
SheetWeek ==
    [cells |-> (<<1, 1>> :> TitleCell(VStr(<<"S", "2">>)))
            @@ (<<2, 1>> :> Cell(Formula))
            @@ (<<9, 1>> :> Cell(Formula))
            @@ (<<3, 2>> :> Cell(VStr(<<"x">>)))
            @@ (<<5, 3>> :> [Cell(VInt(7)) EXCEPT
                                !.font = [has |-> TRUE, color_has |-> TRUE, rgb |-> Red,
                                          bold |-> TRUE, italic |-> FALSE],
                                !.raises = {"font.color.rgb"}]),
     merged |-> <<[min_row |-> 3, max_row |-> 4, min_col |-> 2, max_col |-> 3]>>]

\* The same sheet name after an edit: a literal date, other cells, no merge
SheetWeekEdited ==
    [cells |-> (<<1, 1>> :> TitleCell(VStr(<<"S", "2">>)))
            @@ (<<2, 1>> :> Cell(VDate(date(2026, 1, 5))))
            @@ (<<4, 4>> :> Cell(VStr(<<"y">>))),
     merged |-> <<>>]

SheetNotes ==
    [cells |-> (<<1, 2>> :> Cell(VStr(<<"n">>)))
            @@ (<<2, 1>> :> Cell(Formula)),
     merged |-> <<>>]

\* A sheet one of whose cells raises on cell.alignment
SheetBadStyle ==
    [cells |-> (<<2, 2>> :> [Cell(VInt(1)) EXCEPT !.raises = {"alignment"}]),
     merged |-> <<>>]

NameWeek == <<"2">>
NameNotes == <<"N", "o", "t", "e", "s">>
NameBad == <<"3">>

Workbooks ==
    << [sheetnames |-> <<NameWeek>>, sheets |-> <<SheetWeek>>],
       [sheetnames |-> <<NameWeek, NameNotes>>, sheets |-> <<SheetWeekEdited, SheetNotes>>],
       [sheetnames |-> <<NameNotes, NameBad>>, sheets |-> <<SheetNotes, SheetBadStyle>>] >>

Unreadable == 0
ContentIds == {Unreadable} \cup DOMAIN Workbooks

(***************************************************************************)
(* Bounds of the model                                                      *)
(***************************************************************************)
NumRequests == 2
MaxCalls == 2
MaxClock == 3
FirstYear == 2026
LastYear == 2027

Requests == 1..NumRequests
Years == FirstYear..LastYear

(***************************************************************************)
(* State                                                                    *)
(*                                                                          *)
(* The environment: files (the uploads directory: name -> exists, content,  *)
(* mtime), clock (the last modification timestamp handed out) and year      *)
(* (datetime.now().year).  The module globals: current_file (the empty      *)
(* string is None), sheets_cache, sheets_cache_mtime.  pc/frame: the        *)
(* position and the locals of each request that calls convert_excel_file;   *)
(* result: what its last call returned and through which return statement.  *)
(* upload: the position and arguments of the /upload handler.  last: the    *)
(* request whose call of convert_excel_file returned last (0: none yet) and *)
(* whether an upload has reset the cache since; calls: how many calls of    *)
(* convert_excel_file have begun (the number of a call is its pass).        *)
(* probe: the arguments and the value of a function applied on its own.     *)
(*                                                                          *)
(* A render mapping (sheets_html, sheets_cache, a returned dict) maps the   *)
(* sheet name to a reference to the immutable markup string sheet_to_html   *)
(* returned: [pass, wb, idx, year], the call that made it, the workbook     *)
(* read, the sheet and the year of the clock at that call.  markup(ref) is  *)
(* the text of the string, and two mappings are equal when they hold the    *)
(* same text under the same names (mapping_text).                           *)
(***************************************************************************)
VARIABLES files, clock, year, current_file, sheets_cache, sheets_cache_mtime,
          pc, frame, result, upload, last, calls, probe

vars == <<files, clock, year, current_file, sheets_cache, sheets_cache_mtime,
          pc, frame, result, upload, last, calls, probe>>

ALLOWED_EXTENSIONS == {".xlsx", ".xls", ".csv"}

\* The file names a client uploads: <<stem, extension>>
UploadNames == {<<"plan", ".xlsx">>, <<"notes", ".txt">>}

\* UPLOAD_DIR / file.filename
path_of(filename) == filename[1] \o filename[2]

PlanFile == "plan.xlsx"
DiskNames == {PlanFile}

\* sheet_to_html(wb[sheet_name], sheet_name) for every sheet of Workbooks,
\* called while the clock shows year y
RenderedSheets ==
    UNION {{[wb |-> w, idx |-> i, year |-> y,
             html |-> sheet_to_html(Workbooks[w].sheets[i], Workbooks[w].sheetnames[i], y)] :
                i \in DOMAIN Workbooks[w].sheets, y \in Years} : w \in DOMAIN Workbooks}

rendered(w, i, y) ==
    (CHOOSE e \in RenderedSheets : e.wb = w /\ e.idx = i /\ e.year = y).html

markup(ref) == rendered(ref.wb, ref.idx, ref.year).val

mapping_text(mapping) == [name \in DOMAIN mapping |-> markup(mapping[name])]

NoFile == [exists |-> FALSE, content |-> Unreadable, mtime |-> 0]
EmptyMapping == <<>>
NoFrame ==
    [pass |-> 0, file_path |-> "", current_mtime |-> 0, wb |-> 0, idx |-> 0,
     sheets_html |-> EmptyMapping]
NoResult ==
    [pass |-> 0, ret |-> EmptyMapping, line |-> 0, file_path |-> "", mtime |-> 0, wb |-> 0]
NoLast == [request |-> 0, reset |-> FALSE]
NoProbe == [fn |-> "", args |-> <<>>, done |-> FALSE, out |-> <<>>]
NoUpload == [pc |-> "idle", filename |-> <<"", "">>, status |-> 0]

\* lifespan(): the first workbook found in uploads/ is loaded, the cache is
\* empty and its tag 0
Init ==
    /\ \E present \in BOOLEAN, c \in ContentIds :
          /\ files = [n \in DiskNames |->
                        IF n = PlanFile /\ present
                        THEN [exists |-> TRUE, content |-> c, mtime |-> 1]
                        ELSE NoFile]
          /\ current_file = IF present THEN PlanFile ELSE ""
    /\ clock = 1
    /\ year = FirstYear
    /\ sheets_cache = EmptyMapping
    /\ sheets_cache_mtime = 0
    /\ pc = [p \in Requests |-> "idle"]
    /\ frame = [p \in Requests |-> NoFrame]
    /\ result = [p \in Requests |-> NoResult]
    /\ upload = NoUpload
    /\ last = NoLast
    /\ calls = 0
    /\ probe = NoProbe

(***************************************************************************)
(* convert_excel_file, one action per statement that reads or writes        *)
(* shared state                                                             *)
(***************************************************************************)
\* The call returns mapping through the return statement at `line`: the
\* result records the arguments and locals of the call, which end with it
return(p, mapping, line) ==
    /\ pc' = [pc EXCEPT ![p] = "idle"]
    /\ result' = [result EXCEPT ![p] =
                    [pass |-> frame[p].pass, ret |-> mapping, line |-> line,
                     file_path |-> frame[p].file_path,
                     mtime |-> frame[p].current_mtime, wb |-> frame[p].wb]]
    /\ frame' = [frame EXCEPT ![p] = NoFrame]
    /\ last' = [request |-> p, reset |-> FALSE]

\* Lines 247-249: the handler returns {} and writes no global
raise(p) == return(p, EmptyMapping, 249)

\* get_sheets / get_sheet / root: the request passes current_file, which it
\* has found to exist, to convert_excel_file
Call(p) ==
    /\ pc[p] = "idle"
    /\ current_file # ""
    /\ files[current_file].exists
    /\ calls < MaxCalls
    /\ calls' = calls + 1
    /\ pc' = [pc EXCEPT ![p] = "stat"]
    /\ frame' = [frame EXCEPT ![p] =
                    [NoFrame EXCEPT !.pass = calls + 1, !.file_path = current_file]]
    /\ UNCHANGED <<files, clock, year, current_file, sheets_cache, sheets_cache_mtime,
                   result, upload, last, probe>>

\* Line 228
Stat(p) ==
    /\ pc[p] = "stat"
    /\ IF files[frame[p].file_path].exists
       THEN /\ frame' = [frame EXCEPT ![p].current_mtime = files[frame[p].file_path].mtime]
            /\ pc' = [pc EXCEPT ![p] = "check_cache"]
            /\ UNCHANGED <<result, last>>
       ELSE raise(p)
    /\ UNCHANGED <<files, clock, year, current_file, sheets_cache, sheets_cache_mtime, upload, calls, probe>>

\* Line 229, left operand: bool(sheets_cache)
CheckCache(p) ==
    /\ pc[p] = "check_cache"
    /\ pc' = [pc EXCEPT ![p] = IF sheets_cache # EmptyMapping THEN "check_mtime" ELSE "load"]
    /\ UNCHANGED <<files, clock, year, current_file, sheets_cache, sheets_cache_mtime,
                   frame, result, upload, last, calls, probe>>

\* Line 229 with <= for ==: a cache older than the file counts as valid
tag_not_newer(tag, current_mtime) == tag <= current_mtime

\* Line 229 with > for ==: no timestamp of the file validates the cache
tag_newer(tag, current_mtime) == tag > current_mtime

\* Line 229, right operand: sheets_cache_mtime == current_mtime
tag_matches(tag, current_mtime) == tag = current_mtime

CheckMtime(p) ==
    /\ pc[p] = "check_mtime"
    /\ pc' = [pc EXCEPT ![p] = IF tag_matches(sheets_cache_mtime, frame[p].current_mtime)
                                THEN "hit" ELSE "load"]
    /\ UNCHANGED <<files, clock, year, current_file, sheets_cache, sheets_cache_mtime,
                   frame, result, upload, last, calls, probe>>

\* Line 230: return sheets_cache
ReturnHit(p) ==
    /\ pc[p] = "hit"
    /\ return(p, sheets_cache, 230)
    /\ UNCHANGED <<files, clock, year, current_file, sheets_cache, sheets_cache_mtime, upload, calls, probe>>

\* Lines 233-234: wb = openpyxl.load_workbook(file_path); sheets_html = {}
Load(p) ==
    /\ pc[p] = "load"
    /\ LET f == files[frame[p].file_path]
       IN  IF f.exists /\ f.content # Unreadable
           THEN /\ frame' = [frame EXCEPT ![p].wb = f.content, ![p].idx = 1,
                                          ![p].sheets_html = EmptyMapping]
                /\ pc' = [pc EXCEPT ![p] = "render"]
                /\ UNCHANGED <<result, last>>
           ELSE raise(p)
    /\ UNCHANGED <<files, clock, year, current_file, sheets_cache, sheets_cache_mtime, upload, calls, probe>>

\* Line 239 writing sheets_cache[sheet_name] for sheets_html[sheet_name]:
\* the shared mapping is filled sheet by sheet
cache_filled_in_place(cache, sheets_html) == sheets_html

\* Line 239: sheets_html[sheet_name] = html; the shared cache is not touched
cache_after_sheet(cache, sheets_html) == cache

\* Lines 236-239, one iteration: the sheet is rendered with the year the
\* clock shows at that moment
RenderSheet(p) ==
    /\ pc[p] = "render"
    /\ LET wb == Workbooks[frame[p].wb]
           i == frame[p].idx
           sheet_name == wb.sheetnames[i]
           html == rendered(frame[p].wb, i, year)
           sheets_html == (Str(sheet_name) :> [pass |-> frame[p].pass, wb |-> frame[p].wb,
                                                idx |-> i, year |-> year])
                              @@ frame[p].sheets_html
       IN  IF html.ok
           THEN /\ frame' = [frame EXCEPT ![p].sheets_html = sheets_html, ![p].idx = i + 1]
                /\ pc' = [pc EXCEPT ![p] = IF i = Len(wb.sheetnames)
                                            THEN "store_cache" ELSE "render"]
                /\ sheets_cache' = cache_after_sheet(sheets_cache, sheets_html)
                /\ UNCHANGED <<result, last>>
           ELSE /\ raise(p)
                /\ UNCHANGED sheets_cache
    /\ UNCHANGED <<files, clock, year, current_file, sheets_cache_mtime, upload, calls, probe>>

\* Lines 241-242: wb.close(); sheets_cache = sheets_html
StoreCache(p) ==
    /\ pc[p] = "store_cache"
    /\ sheets_cache' = frame[p].sheets_html
    /\ pc' = [pc EXCEPT ![p] = "store_mtime"]
    /\ UNCHANGED <<files, clock, year, current_file, sheets_cache_mtime,
                   frame, result, upload, last, calls, probe>>

\* Line 243 left out: the tag keeps the value it had
tag_kept(tag, current_mtime) == tag

\* Line 243: sheets_cache_mtime = current_mtime
tag_to_store(tag, current_mtime) == current_mtime

\* Lines 243-245: sheets_cache_mtime = current_mtime; return sheets_html
StoreMtime(p) ==
    /\ pc[p] = "store_mtime"
    /\ sheets_cache_mtime' = tag_to_store(sheets_cache_mtime, frame[p].current_mtime)
    /\ return(p, frame[p].sheets_html, 245)
    /\ UNCHANGED <<files, clock, year, current_file, sheets_cache, upload, calls, probe>>

(***************************************************************************)
(* upload_file: the awaits at lines 349-351 let other work run between the  *)
(* writing of the file and lines 353-361                                    *)
(***************************************************************************)
\* Lines 343-351: the extension check (HTTP 400), then the file is written
UploadWrite(filename, content) ==
    /\ upload.pc = "idle"
    /\ IF \A ext \in ALLOWED_EXTENSIONS : filename[2] # ext
       THEN /\ upload' = [NoUpload EXCEPT !.status = 400]
            /\ UNCHANGED <<files, clock>>
       ELSE /\ clock < MaxClock
            /\ clock' = clock + 1
            /\ files' = [files EXCEPT ![path_of(filename)] =
                            [exists |-> TRUE, content |-> content, mtime |-> clock + 1]]
            /\ upload' = [pc |-> "written", filename |-> filename, status |-> 0]
    /\ UNCHANGED <<year, current_file, sheets_cache, sheets_cache_mtime,
                   pc, frame, result, last, calls, probe>>

\* Lines 353-361
UploadCommit ==
    /\ upload.pc = "written"
    /\ current_file' = path_of(upload.filename)
    /\ sheets_cache' = EmptyMapping
    /\ sheets_cache_mtime' = 0
    /\ upload' = [NoUpload EXCEPT !.status = 200]
    /\ last' = IF last.request = 0 THEN last ELSE [last EXCEPT !.reset = TRUE]
    /\ UNCHANGED <<files, clock, year, pc, frame, result, calls, probe>>

(***************************************************************************)
(* The environment                                                          *)
(***************************************************************************)
\* Another program saves the workbook (new or identical bytes): its
\* modification timestamp moves on
Modify(content) ==
    /\ files[PlanFile].exists
    /\ clock < MaxClock
    /\ clock' = clock + 1
    /\ files' = [files EXCEPT ![PlanFile] =
                    [exists |-> TRUE, content |-> content, mtime |-> clock + 1]]
    /\ UNCHANGED <<year, current_file, sheets_cache, sheets_cache_mtime,
                   pc, frame, result, upload, last, calls, probe>>

\* Another program removes the workbook
Delete ==
    /\ files[PlanFile].exists
    /\ files' = [files EXCEPT ![PlanFile] = NoFile]
    /\ UNCHANGED <<clock, year, current_file, sheets_cache, sheets_cache_mtime,
                   pc, frame, result, upload, last, calls, probe>>

\* The calendar year changes
NewYear ==
    /\ year < LastYear
    /\ year' = year + 1
    /\ UNCHANGED <<files, clock, current_file, sheets_cache, sheets_cache_mtime,
                   pc, frame, result, upload, last, calls, probe>>

Environment ==
    \/ \E content \in ContentIds : Modify(content)
    \/ Delete
    \/ NewYear

Convert(p) ==
    \/ Call(p) \/ Stat(p) \/ CheckCache(p) \/ CheckMtime(p) \/ ReturnHit(p)
    \/ Load(p) \/ RenderSheet(p) \/ StoreCache(p) \/ StoreMtime(p)

\* convert_excel_file called from several threads at once: every
\* interleaving of its statements
Next ==
    \/ \E p \in Requests : Convert(p)
    \/ \E filename \in UploadNames, content \in ContentIds : UploadWrite(filename, content)
    \/ UploadCommit
    \/ Environment

Spec == Init /\ [][Next]_vars

(***************************************************************************)
(* The handlers as the application runs them: coroutines of one event loop. *)
(* convert_excel_file holds no await, so a call runs from line 228 to its   *)
(* return with no other handler in between, and lines 353-356 of            *)
(* upload_file run between two calls.  The file itself is written by a      *)
(* worker thread (aiofiles) and by other programs at any moment.            *)
(***************************************************************************)
others_idle(p) == \A q \in Requests \ {p} : pc[q] = "idle"

LoopNext ==
    \/ \E p \in Requests : others_idle(p) /\ Convert(p)
    \/ \E filename \in UploadNames, content \in ContentIds : UploadWrite(filename, content)
    \/ (\A q \in Requests : pc[q] = "idle") /\ UploadCommit
    \/ Environment

SpecLoop == Init /\ [][LoopNext]_vars

(***************************************************************************)
(* The pure functions applied on their own: the arguments are drawn from    *)
(* bounded sets, one action applies the function                            *)
(***************************************************************************)
MaxProbeRow == 16

ProbeValues ==
    {VNone, VStr(<<>>), VStr(<<" ">>), VStr(<<"x">>), Formula, VInt(0), VInt(7),
     VDate(date(FirstYear, 1, 5)), VDateTime(date(FirstYear, 12, 31)), VTime}

ProbeWeeks == {NoWeek, 1, 2, 53}

FormatProbes ==
    {[fn |-> "format_cell_value",
      args |-> [value |-> v, row_idx |-> r, col_idx |-> c, week |-> w, now_year |-> y,
                is_date_row |-> d],
      done |-> FALSE, out |-> <<>>] :
        v \in ProbeValues, r \in 0..MaxProbeRow, c \in 1..2, w \in ProbeWeeks,
        y \in Years, d \in BOOLEAN}

\* The merge ranges of the sheets rendered on their own: no two overlap;
\* the last two cross the edge of the rendered window
MergeFamily ==
    <<[min_row |-> 3, max_row |-> 4, min_col |-> 2, max_col |-> 3],
      [min_row |-> 1, max_row |-> 1, min_col |-> 1, max_col |-> 3],
      [min_row |-> 5, max_row |-> 7, min_col |-> 1, max_col |-> 1],
      [min_row |-> 28, max_row |-> 30, min_col |-> 4, max_col |-> 5],
      [min_row |-> 10, max_row |-> 11, min_col |-> 20, max_col |-> 21]>>

merge_choice(I) ==
    LET picked == SelectSeq([k \in DOMAIN MergeFamily |-> k], LAMBDA k : k \in I)
    IN  List([i \in DOMAIN picked |-> MergeFamily[picked[i]]])

SheetProbes ==
    {[fn |-> "sheet_to_html",
      args |-> [ws |-> [SheetWeek EXCEPT !.merged = merge_choice(I)],
                sheet_name |-> n, now_year |-> y],
      done |-> FALSE, out |-> <<>>] :
        I \in SUBSET DOMAIN MergeFamily, n \in {NameWeek, NameNotes}, y \in Years}

\* Week numbers -1..MaxWeek and the years FirstYear..FirstYear + YearSpan:
\* every weekday of January 4th and two leap years; year_arg NoYear is
\* the call without a year
MaxWeek == 54
YearSpan == 7

WeekProbes ==
    {[fn |-> "get_week_dates",
      args |-> [week_num |-> w, year_arg |-> ya, now_year |-> y],
      done |-> FALSE, out |-> <<>>] :
        w \in (-1)..MaxWeek, ya \in {NoYear} \cup (FirstYear..(FirstYear + YearSpan)),
        y \in Years}

\* The values of a colour's rgb: None, the sentinel, opaque black, aRGB
\* colours with alpha FF and 00, and 6-digit values
Sentinel == <<"0", "0", "0", "0", "0", "0", "0", "0">>
OpaqueBlack == <<"F", "F", "0", "0", "0", "0", "0", "0">>
ProbeColors ==
    {<<>>, Sentinel, OpaqueBlack, Yellow, Red,
     <<"0", "0", "F", "F", "C", "C", "0", "0">>,
     <<"0", "0", "0", "0", "0", "0">>,
     <<"F", "F", "C", "C", "0", "0">>}

StyleProbes ==
    {[fn |-> "get_cell_style",
      args |-> [cell |-> [EmptyCell EXCEPT
                    !.fill = [has |-> TRUE, color_has |-> fh, rgb |-> f],
                    !.font = [has |-> TRUE, color_has |-> th, rgb |-> t,
                              bold |-> b, italic |-> FALSE]]],
      done |-> FALSE, out |-> <<>>] :
        f \in ProbeColors, t \in ProbeColors, fh \in BOOLEAN, th \in BOOLEAN,
        b \in BOOLEAN}

\* A week sheet whose column A holds every kind of value: formulas (rows
\* 1, 10, 11, 29), an empty string, a literal date, a text, a styled empty
\* cell, a number; A10:A11 is merged; B2 holds a formula
SheetColumnA ==
    [cells |-> (<<1, 1>> :> Cell(Formula))
            @@ (<<2, 1>> :> Cell(VStr(<<>>)))
            @@ (<<3, 1>> :> Cell(VDate(date(2026, 1, 6))))
            @@ (<<4, 1>> :> Cell(VStr(<<"x">>)))
            @@ (<<5, 1>> :> TitleCell(VNone))
            @@ (<<8, 1>> :> Cell(VInt(7)))
            @@ (<<10, 1>> :> Cell(Formula))
            @@ (<<11, 1>> :> Cell(Formula))
            @@ (<<29, 1>> :> Cell(Formula))
            @@ (<<2, 2>> :> Cell(Formula)),
     merged |-> <<[min_row |-> 10, max_row |-> 11, min_col |-> 1, max_col |-> 1]>>]

\* Cells below row 29 or right of column 20: in column A a formula and a
\* date, elsewhere a text, a styled text, and a cell whose alignment
\* cannot be read
OutsideCells ==
       (<<35, 1>> :> Cell(Formula))
    @@ (<<30, 1>> :> Cell(VDate(date(2026, 1, 5))))
    @@ (<<5, 25>> :> Cell(VStr(<<"z">>)))
    @@ (<<3, 21>> :> TitleCell(VStr(<<"t">>)))
    @@ (<<35, 25>> :> [Cell(VInt(9)) EXCEPT !.raises = {"alignment"}])

outside_choice(J) == [rc \in J |-> OutsideCells[rc]]

WindowProbes ==
    {[fn |-> "sheet_to_html",
      args |-> [ws |-> [base EXCEPT !.cells = base.cells @@ outside_choice(J)],
                sheet_name |-> n, now_year |-> y],
      done |-> FALSE, out |-> <<>>] :
        base \in {SheetWeek, SheetWeekEdited, SheetNotes, SheetColumnA},
        J \in SUBSET DOMAIN OutsideCells, n \in {NameWeek, NameNotes}, y \in Years}

\* Sheet names around the pattern of filter_sheets
ProbeNames ==
    {<<"1", "2">>, <<"1", "2", " ", "(", "1", ")">>, <<"1", "2", "(", "1", ")">>,
     <<"1", "2", " ", "(", ")">>, <<" ", "(", "1", ")">>, <<"(", "1", ")">>,
     <<"1", "2", " ", "(", "1", ")", " ">>, <<"1", "2", " ", "(", "a", ")">>,
     <<"7", " ", "\t", "(", "3", "4", ")">>, <<"7", " ", "(", "1", ")", " ", "(", "2", ")">>,
     <<"7", " ", "(", "1", ")", "x">>, <<"7", " ", "(", "1">>, NameNotes}

MaxSheets == 3

\* wb.sheetnames: up to MaxSheets names, no name twice
ProbeSheetnames ==
    UNION {{q \in [1..n -> ProbeNames] : \A i, j \in 1..n : q[i] = q[j] => i = j} :
           n \in 0..MaxSheets}

\* str(week_num) of the day the main page is asked for
ProbeWeekStrs == {<<"1", "2">>, <<"7">>}

ListingProbes ==
    {[fn |-> "get_sheets", args |-> [sheetnames |-> q], done |-> FALSE, out |-> <<>>] :
        q \in ProbeSheetnames}
    \cup
    {[fn |-> "root", args |-> [sheetnames |-> q, week_str |-> w],
      done |-> FALSE, out |-> <<>>] :
        q \in ProbeSheetnames, w \in ProbeWeekStrs}

InitRender ==
    /\ files = [n \in DiskNames |-> NoFile]
    /\ clock = 1
    /\ year = FirstYear
    /\ current_file = ""
    /\ sheets_cache = EmptyMapping
    /\ sheets_cache_mtime = 0
    /\ pc = [p \in Requests |-> "idle"]
    /\ frame = [p \in Requests |-> NoFrame]
    /\ result = [p \in Requests |-> NoResult]
    /\ upload = NoUpload
    /\ last = NoLast
    /\ calls = 0
    /\ probe \in FormatProbes \cup SheetProbes \cup WeekProbes \cup StyleProbes
                \cup WindowProbes \cup ListingProbes

program_vars ==
    <<files, clock, year, current_file, sheets_cache, sheets_cache_mtime,
      pc, frame, result, upload, last, calls>>

ApplyFormatCellValue ==
    /\ probe.fn = "format_cell_value"
    /\ ~probe.done
    /\ LET a == probe.args
           week_dates == IF a.week = NoWeek THEN <<>>
                         ELSE get_week_dates(a.week, NoYear, a.now_year)
       IN  probe' = [probe EXCEPT !.done = TRUE,
                        !.out = format_cell_value(a.value, a.row_idx, a.col_idx,
                                                  week_dates, a.is_date_row)]
    /\ UNCHANGED program_vars

ApplySheetToHtml ==
    /\ probe.fn = "sheet_to_html"
    /\ ~probe.done
    /\ probe' = [probe EXCEPT !.done = TRUE,
                    !.out = sheet_to_html(probe.args.ws, probe.args.sheet_name,
                                          probe.args.now_year)]
    /\ UNCHANGED program_vars

ApplyGetWeekDates ==
    /\ probe.fn = "get_week_dates"
    /\ ~probe.done
    /\ probe' = [probe EXCEPT !.done = TRUE,
                    !.out = get_week_dates(probe.args.week_num, probe.args.year_arg,
                                           probe.args.now_year)]
    /\ UNCHANGED program_vars

ApplyGetCellStyle ==
    /\ probe.fn = "get_cell_style"
    /\ ~probe.done
    /\ probe' = [probe EXCEPT !.done = TRUE, !.out = get_cell_style(probe.args.cell)]
    /\ UNCHANGED program_vars

ApplyGetSheets ==
    /\ probe.fn = "get_sheets"
    /\ ~probe.done
    /\ probe' = [probe EXCEPT !.done = TRUE, !.out = get_sheets(probe.args.sheetnames)]
    /\ UNCHANGED program_vars

ApplyRoot ==
    /\ probe.fn = "root"
    /\ ~probe.done
    /\ probe' = [probe EXCEPT !.done = TRUE,
                    !.out = root_options(probe.args.sheetnames, probe.args.week_str)]
    /\ UNCHANGED program_vars

RenderNext ==
    \/ ApplyFormatCellValue
    \/ ApplySheetToHtml
    \/ ApplyGetWeekDates
    \/ ApplyGetCellStyle
    \/ ApplyGetSheets
    \/ ApplyRoot

SpecRender == InitRender /\ [][RenderNext]_vars

(***************************************************************************)
(* The claims                                                               *)
(***************************************************************************)
sheet_names_of(w) == {Str(Workbooks[w].sheetnames[i]) : i \in DOMAIN Workbooks[w].sheetnames}

\* mapping holds, under every sheet name of workbook content w, the text
\* sheet_to_html gives for that sheet (in some year of the clock)
is_render_of(mapping, w) ==
    /\ w # Unreadable
    /\ DOMAIN mapping = sheet_names_of(w)
    /\ \A i \in DOMAIN Workbooks[w].sheetnames :
          \E y \in Years :
             /\ rendered(w, i, y).ok
             /\ markup(mapping[Str(Workbooks[w].sheetnames[i])]) = rendered(w, i, y).val

\* C1: in every reachable state, under any interleaving of the statements of
\* convert_excel_file calls, modifications and uploads, a non-empty cache
\* whose tag equals the current modification timestamp of the workbook holds
\* the render of the workbook's current content.
C1_TaggedCacheIsCurrent ==
    (/\ sheets_cache # EmptyMapping
     /\ current_file # ""
     /\ files[current_file].exists
     /\ sheets_cache_mtime = files[current_file].mtime)
        => is_render_of(sheets_cache, files[current_file].content)

\* The step ends a call of request p / is a step of request p
returns(p) == pc[p] # "idle" /\ pc'[p] = "idle"
steps(p) == pc'[p] # pc[p] \/ frame'[p] # frame[p]

\* Every entry of mapping was rendered by the call numbered pass
made_by(mapping, pass) == \A name \in DOMAIN mapping : mapping[name].pass = pass

\* C2: a call that reads a modification timestamp different from the cache
\* tag (and does not raise, see C4) returns through line 245 a mapping it
\* rendered itself, with an entry for every sheet of the workbook it read;
\* the cache is that mapping and the tag the timestamp the call read.
C2_MismatchRendersAfresh ==
    [][\A p \in Requests :
          (/\ returns(p)
           /\ result'[p].line # 249
           /\ sheets_cache_mtime # frame[p].current_mtime)
              => /\ result'[p].line = 245
                 /\ made_by(result'[p].ret, result'[p].pass)
                 /\ is_render_of(result'[p].ret, result'[p].wb)
                 /\ sheets_cache' = result'[p].ret
                 /\ sheets_cache_mtime' = result'[p].mtime
                 /\ result'[p].mtime = frame[p].current_mtime]_vars

\* The second of two passes over the same content, made because the
\* timestamp of the file moved, has replaced the cache
C2_Witness ==
    \E p, q \in Requests :
       /\ result[p].line = 245 /\ result[q].line = 245
       /\ result[p].pass > result[q].pass
       /\ result[p].wb = result[q].wb
       /\ result[p].mtime # result[q].mtime
       /\ sheets_cache = result[p].ret
       /\ sheets_cache_mtime = result[p].mtime

\* The call that returned before the one of p returns now returned a
\* render, on the same file at the modification timestamp the file has had
\* ever since
follows_render(p) ==
    /\ returns(p)
    /\ last.request # 0
    /\ result[last.request].line \in {230, 245}
    /\ result[last.request].file_path = frame[p].file_path
    /\ result[last.request].mtime = frame[p].current_mtime
    /\ files[frame[p].file_path].exists
    /\ files[frame[p].file_path].mtime = frame[p].current_mtime

\* The call of p returns the cached mapping, equal to the one the call
\* before it returned; it rendered nothing and wrote neither cache nor tag
is_hit_after(p) ==
    /\ result'[p].line = 230
    /\ mapping_text(result'[p].ret) = mapping_text(result[last.request].ret)
    /\ \A name \in DOMAIN result'[p].ret : result'[p].ret[name].pass # result'[p].pass
    /\ sheets_cache' = result[last.request].ret
    /\ sheets_cache_mtime' = result[last.request].mtime
    /\ UNCHANGED <<sheets_cache, sheets_cache_mtime>>

\* C3 as stated: of two consecutive calls on the same workbook with no
\* change of the file or of its timestamp between them, the second is a
\* cache hit that returns the mapping the first returned.
C3_SecondCallIsHit ==
    [][\A p \in Requests : follows_render(p) => is_hit_after(p)]_vars

\* C3, amended: the same, provided no upload has reset the cache between the
\* two calls.
C3_SecondCallIsHitUnlessReset ==
    [][\A p \in Requests : (follows_render(p) /\ ~last.reset) => is_hit_after(p)]_vars

\* A hit has followed a render pass on the same file and timestamp
C3_Witness ==
    \E p, q \in Requests :
       /\ last = [request |-> p, reset |-> FALSE]
       /\ result[p].line = 230 /\ result[q].line = 245
       /\ result[p].pass = result[q].pass + 1
       /\ result[p].mtime = result[q].mtime
       /\ result[p].ret = result[q].ret

\* C4: a call raises only at lines 228-239, before it has written anything:
\* no step of a call up to there changes the cache mapping or the tag, and
\* the call that raises returns the empty mapping.
C4_FailureLeavesCache ==
    [][\A p \in Requests :
          /\ (steps(p) /\ pc[p] \in {"stat", "check_cache", "check_mtime", "hit",
                                     "load", "render"})
                => UNCHANGED <<sheets_cache, sheets_cache_mtime>>
          /\ (returns(p) /\ result'[p].line = 249)
                => /\ pc[p] \in {"stat", "load", "render"}
                   /\ result'[p].ret = EmptyMapping]_vars

\* A call has raised in sheet_to_html after rendering a first sheet, while
\* the cache held the render of an older content
C4_Witness ==
    \E p \in Requests :
       /\ result[p].line = 249
       /\ result[p].wb # Unreadable
       /\ Workbooks[result[p].wb].sheetnames[1] = NameNotes
       /\ sheets_cache # EmptyMapping
       /\ sheets_cache_mtime # result[p].mtime

\* mapping is empty or holds, for every sheet of one workbook, the entry one
\* call made for that sheet
complete_single_pass(mapping) ==
    \/ mapping = EmptyMapping
    \/ \E w \in DOMAIN Workbooks, k \in 1..calls :
          /\ DOMAIN mapping = sheet_names_of(w)
          /\ \A i \in DOMAIN Workbooks[w].sheetnames :
                LET ref == mapping[Str(Workbooks[w].sheetnames[i])]
                IN  ref.wb = w /\ ref.idx = i /\ ref.pass = k

\* C5: under any interleaving, the shared cache and every mapping a reader
\* received are empty or hold an entry for every sheet of one render pass of
\* one workbook.
C5_CacheCompleteOrEmpty ==
    /\ complete_single_pass(sheets_cache)
    /\ \A p \in Requests : complete_single_pass(result[p].ret)

\* The cache holds the two sheets of one pass while another call is halfway
\* through its own pass
C5_Witness ==
    \E q \in Requests :
       /\ Cardinality(DOMAIN sheets_cache) = 2
       /\ pc[q] = "render"
       /\ frame[q].idx = 2
       /\ ~made_by(sheets_cache, frame[q].pass)

\* The last call of request r was a cache miss on the workbook as it still
\* is: the file has the modification timestamp the call read
missed(r) ==
    /\ result[r].line = 245
    /\ result[r].file_path = current_file
    /\ files[current_file].exists
    /\ result[r].mtime = files[current_file].mtime

\* No call is running, and the calls of p, of q and of every other request
\* that has called were such cache misses
raced(p, q) ==
    /\ p # q
    /\ \A r \in Requests : pc[r] = "idle" /\ (result[r] # NoResult => missed(r))
    /\ missed(p) /\ missed(q)

\* The calls returned the same mapping, and cache and tag are those of one
\* call on the workbook
benign(p, q) ==
    /\ mapping_text(result[p].ret) = mapping_text(result[q].ret)
    /\ mapping_text(sheets_cache) = mapping_text(result[p].ret)
    /\ is_render_of(sheets_cache, files[current_file].content)
    /\ sheets_cache_mtime = files[current_file].mtime

\* C6 as stated: calls that ran as cache misses on the same workbook, not
\* modified while they ran, returned the same mapping and left the cache
\* and the tag a single call would have left.
C6_RaceBenign ==
    \A p, q \in Requests : raced(p, q) => benign(p, q)

\* C6, amended: the same, provided the calendar year has not changed and no
\* upload has run.
C6_RaceBenignSameYear ==
    \A p, q \in Requests :
       (raced(p, q) /\ year = FirstYear /\ upload = NoUpload) => benign(p, q)

\* Two calls have both rendered the workbook: the second read the timestamp
\* before the first wrote the tag
C6_Witness ==
    \E p, q \in Requests :
       /\ raced(p, q) /\ year = FirstYear /\ upload = NoUpload
       /\ result[p].pass # result[q].pass
       /\ made_by(sheets_cache, result[p].pass)

\* Two render passes over the same workbook content have returned
both_rendered(p, q) ==
    /\ result[p].line = 245 /\ result[q].line = 245
    /\ result[p].wb = result[q].wb

\* C7 as stated: two render passes over the same workbook content produce
\* identical mappings, whatever the moment at which each pass runs.
C7_PassDeterministic ==
    \A p, q \in Requests :
       both_rendered(p, q) => mapping_text(result[p].ret) = mapping_text(result[q].ret)

\* C7, amended: two render passes over the same workbook content give a
\* sheet the same markup if its name is not a number or if both rendered it
\* in the same calendar year.
C7_PassDeterministicInYear ==
    \A p, q \in Requests :
       both_rendered(p, q) =>
          \A name \in DOMAIN result[p].ret :
             LET a == result[p].ret[name]
                 b == result[q].ret[name]
                 sheet_name == Workbooks[a.wb].sheetnames[a.idx]
             IN  (a.year = b.year \/ ~(sheet_name # <<>> /\ isdigit(sheet_name)))
                    => markup(a) = markup(b)

\* Two passes over the same content have rendered a sheet named by a number
\* in two different years, and a sheet with another name as well
C7_Witness ==
    \E p, q \in Requests :
       /\ both_rendered(p, q)
       /\ Str(NameWeek) \in DOMAIN result[p].ret
       /\ Str(NameNotes) \in DOMAIN result[p].ret
       /\ result[p].ret[Str(NameWeek)].year # result[q].ret[Str(NameWeek)].year
       /\ result[p].ret[Str(NameNotes)].year # result[q].ret[Str(NameNotes)].year

\* C8 as stated: a call that has opened the workbook returns markup for
\* every sheet of it, whatever attribute access of whatever cell raises.
C8_StyleFailureNotFatal ==
    \A p \in Requests :
       result[p].wb # Unreadable => DOMAIN result[p].ret = sheet_names_of(result[p].wb)

\* The coordinates of a merge range, its anchor, and the name of a
\* coordinate (columns A to Z)
members(R) == (R.min_row..R.max_row) \X (R.min_col..R.max_col)
anchor(R) == <<R.min_row, R.min_col>>
a1(rc) == Letters[rc[2]] \o ToString(rc[1])

\* The columns of row r that are non-anchor coordinates of a range
non_anchor_cols(ranges, r) ==
    {c \in 1..max_column :
        \E i \in DOMAIN ranges : <<r, c>> \in members(ranges[i]) \ {anchor(ranges[i])}}

\* C9: the merge table maps every coordinate of every range to the spans of
\* the range and marks its first coordinate alone as anchor; in the rendered
\* window sheet_to_html emits no cell for a non-anchor coordinate and gives
\* the cell of an anchor the colspan and the rowspan that exceed 1.
C9_MergeResolution ==
    (probe.fn = "sheet_to_html" /\ probe.done) =>
       LET ranges == probe.args.ws.merged
           table == merged_cells_dict(ranges)
           rows == probe.out.val
           attr(span) == IF span > 1 THEN span ELSE 0
       IN  /\ probe.out.ok
           /\ DOMAIN table = UNION {{a1(rc) : rc \in members(ranges[i])} : i \in DOMAIN ranges}
           /\ \A i \in DOMAIN ranges : \A rc \in members(ranges[i]) :
                 table[a1(rc)] =
                    [rowspan |-> ranges[i].max_row - ranges[i].min_row + 1,
                     colspan |-> ranges[i].max_col - ranges[i].min_col + 1,
                     is_main |-> rc = anchor(ranges[i])]
           /\ \A r \in 1..max_row :
                 Len(rows[r]) = max_column - Cardinality(non_anchor_cols(ranges, r))
           /\ \A i \in DOMAIN ranges :
                 LET r == ranges[i].min_row
                     c == ranges[i].min_col
                     k == c - Cardinality({n \in non_anchor_cols(ranges, r) : n < c})
                 IN  (r <= max_row /\ c <= max_column) =>
                        /\ rows[r][k].colspan = attr(ranges[i].max_col - ranges[i].min_col + 1)
                        /\ rows[r][k].rowspan = attr(ranges[i].max_row - ranges[i].min_row + 1)
           /\ \A r \in 1..max_row : \A k \in DOMAIN rows[r] :
                 (rows[r][k].colspan # 0 \/ rows[r][k].rowspan # 0) =>
                    \E i \in DOMAIN ranges :
                       /\ r = ranges[i].min_row
                       /\ k = ranges[i].min_col
                              - Cardinality({n \in non_anchor_cols(ranges, r) :
                                                n < ranges[i].min_col})

\* The merge of rows 3-4, columns 2-3 has been rendered: row 3 holds 19
\* cells, the second with both spans 2, and row 4 holds 18
C9_Witness ==
    /\ probe.fn = "sheet_to_html" /\ probe.done
    /\ \E i \in DOMAIN probe.args.ws.merged : probe.args.ws.merged[i] = MergeFamily[1]
    /\ Len(probe.out.val[3]) = 19
    /\ probe.out.val[3][2].colspan = 2
    /\ probe.out.val[3][2].rowspan = 2
    /\ Len(probe.out.val[4]) = 18

\* The value is a formula / is empty or blank
is_formula(value) == value.kind = "str" /\ value.s # <<>> /\ value.s[1] = "="
is_blank(value) == value = VNone \/ value = VStr(<<>>)

\* Day name, line break, DD-MM-YYYY of the k-th date of a week sequence
label(week_dates, k) ==
    LET ymd == CHOOSE t \in ((FirstYear - 1)..(LastYear + 1)) \X (1..12) \X (1..31) :
                  t[3] <= DaysInMonth(t[1], t[2]) /\ date(t[1], t[2], t[3]) = week_dates[k]
    IN  jours[k] \o "<br/>" \o Pad2(ymd[3]) \o "-" \o Pad2(ymd[2]) \o "-" \o ToString(ymd[1])

\* C10: for a cell of column 1 flagged as a date row on a sheet with a
\* WeekDate sequence, format_cell_value gives a formula and an empty or
\* blank value the label of the WeekDate at index (row - 2) mod 7 (the first
\* one in rows 2 and 9); a formula for which one of the conditions fails is
\* rendered as the empty string.
C10_DateReconstruction ==
    (probe.fn = "format_cell_value" /\ probe.done) =>
       LET a == probe.args
           week_dates == get_week_dates(a.week, NoYear, a.now_year)
           applies == a.col_idx = 1 /\ a.is_date_row /\ a.week # NoWeek /\ a.row_idx >= 1
       IN  /\ (applies /\ (is_formula(a.value) \/ is_blank(a.value)))
                 => probe.out = label(week_dates, ((a.row_idx - 2) % 7) + 1)
           /\ (applies /\ (is_formula(a.value) \/ is_blank(a.value)) /\ a.row_idx \in {2, 9})
                 => probe.out = label(week_dates, 1)
           /\ (is_formula(a.value) /\ ~applies) => probe.out = ""

\* The formula of row 9, column 1 of a week sheet has been rendered as the
\* Monday of the week
C10_Witness ==
    /\ probe.fn = "format_cell_value" /\ probe.done
    /\ probe.args.value = Formula
    /\ probe.args.row_idx = 9 /\ probe.args.col_idx = 1
    /\ probe.args.is_date_row /\ probe.args.week = 2
    /\ probe.out = label(get_week_dates(2, NoYear, probe.args.now_year), 1)
    /\ probe.out # ""


\* The year get_week_dates works in: the argument, or the current year
week_year(a) == IF a.year_arg = NoYear THEN a.now_year ELSE a.year_arg

\* 1 January 2024 was a Monday
KnownMonday == date(2024, 1, 1)

\* C11: get_week_dates returns exactly 7 dates, each the day after the one
\* before it, the last 6 days after the first, the first a Monday; for week
\* number 1 the 7 dates include January 4th of the year.
C11_WeekDates ==
    (probe.fn = "get_week_dates" /\ probe.done) =>
        LET a == probe.args
            out == probe.out
        IN  /\ DOMAIN out = 1..7
            /\ \A i \in 1..6 : out[i + 1] = out[i] + 1
            /\ out[7] = out[1] + 6
            /\ (out[1] - KnownMonday) % 7 = 0
            /\ a.week_num = 1 => \E i \in 1..7 : out[i] = date(week_year(a), 1, 4)

\* Week 1 of 2027, a year whose January 1st (a Friday) lies in the week
\* before that of January 4th
C11_Witness ==
    /\ probe.fn = "get_week_dates" /\ probe.done
    /\ probe.args.week_num = 1
    /\ probe.args.year_arg = 2027
    /\ probe.out[1] = date(2027, 1, 4)


\* A colour (cell.fill.start_color, cell.font.color) that is present
color_present(c) == c.has /\ c.color_has /\ c.rgb # <<>>

last_six(rgb) == IF Len(rgb) > 6 THEN SubSeq(rgb, Len(rgb) - 5, Len(rgb)) ELSE rgb

declaration(prop, rgb) == <<prop \o ": #" \o Str(last_six(rgb))>>

bold_declaration(cell) == IF cell.font.bold THEN <<"font-weight: bold">> ELSE <<>>

\* The declarations the claim expects: a present colour other than 00000000
claimed(prop, c) ==
    IF color_present(c) /\ c.rgb # Sentinel THEN declaration(prop, c.rgb) ELSE <<>>

\* A present colour other than 00000000 whose last 6 digits are not 000000
unless_black(prop, c) ==
    IF color_present(c) /\ c.rgb # Sentinel /\ last_six(c.rgb) # last_six(Sentinel)
    THEN declaration(prop, c.rgb) ELSE <<>>

\* C12: get_cell_style writes background-color from the last 6 hex digits of
\* every fill colour that is present and color from every font colour that
\* is present, and leaves the declaration out exactly when the colour is
\* 00000000; no other value, opaque black FF000000 included, is left out.
C12_OnlySentinelOmitted ==
    (probe.fn = "get_cell_style" /\ probe.done) =>
        LET cell == probe.args.cell
        IN  probe.out = Ok(Join("; ", claimed("background-color", cell.fill)
                                      \o claimed("color", cell.font)
                                      \o bold_declaration(cell)))

\* C12 (amended): the declaration is left out exactly when the colour is
\* 00000000 or its last 6 hex digits are 000000 (black of any alpha).
C12_SentinelAndBlackOmitted ==
    (probe.fn = "get_cell_style" /\ probe.done) =>
        LET cell == probe.args.cell
        IN  probe.out = Ok(Join("; ", unless_black("background-color", cell.fill)
                                      \o unless_black("color", cell.font)
                                      \o bold_declaration(cell)))

\* An opaque black fill under a red bold font: only the font is styled
C12_Witness ==
    /\ probe.fn = "get_cell_style" /\ probe.done
    /\ probe.args.cell.fill = [has |-> TRUE, color_has |-> TRUE, rgb |-> OpaqueBlack]
    /\ probe.args.cell.font.rgb = Red /\ probe.args.cell.font.color_has
    /\ probe.args.cell.font.bold
    /\ probe.out = Ok("color: #FF0000; font-weight: bold")


\* The coordinates of rows 1..29 and columns 1..20
in_window(rc) == rc[1] \in 1..29 /\ rc[2] \in 1..20

\* The sheet without the cells it holds outside the window
window(ws) ==
    [ws EXCEPT !.cells = [rc \in {x \in DOMAIN ws.cells : in_window(x)} |-> ws.cells[rc]]]

\* C13: sheet_to_html emits exactly 29 rows of at most 20 cells each, all
\* of them cells of rows 1..29 and columns 1..20: the markup is that of the
\* sheet without its cells outside the window, whatever those cells hold.
C13_WindowOnly ==
    (probe.fn = "sheet_to_html" /\ probe.done) =>
        LET a == probe.args
        IN  /\ probe.out.ok
            /\ Len(probe.out.val) = 29
            /\ \A r \in 1..29 : Len(probe.out.val[r]) <= 20
            /\ probe.out = sheet_to_html(window(a.ws), a.sheet_name, a.now_year)

\* A rendered sheet that holds cells at row 35 and at column 25
C13_Witness ==
    /\ probe.fn = "sheet_to_html" /\ probe.done
    /\ {<<35, 1>>, <<5, 25>>, <<35, 25>>} \subseteq DOMAIN probe.args.ws.cells
    /\ probe.out.ok
    /\ Len(probe.out.val) = 29
    /\ Len(probe.out.val[5]) = 20


\* The name ends in whitespace followed by a parenthesised number: read
\* from its end, ")" , d >= 1 digits, "(" , one whitespace character
ends_in_numbered_copy(s) ==
    /\ Len(s) >= 4
    /\ s[Len(s)] = ")"
    /\ \E d \in 1..(Len(s) - 3) :
          /\ \A k \in (Len(s) - d)..(Len(s) - 1) : s[k] \in Range(DigitChars)
          /\ s[Len(s) - d - 1] = "("
          /\ s[Len(s) - d - 2] \in {" ", "\t"}

position(q, s) == CHOOSE i \in DOMAIN q : q[i] = s

\* listed holds, in the order of sheetnames, exactly the names of
\* sheetnames that are no numbered copy
is_listing_of(listed, sheetnames) ==
    /\ \A i \in DOMAIN listed :
          listed[i] \in Range(sheetnames) /\ ~ends_in_numbered_copy(listed[i])
    /\ \A i \in DOMAIN sheetnames :
          ~ends_in_numbered_copy(sheetnames[i]) => sheetnames[i] \in Range(listed)
    /\ \A i, j \in DOMAIN listed :
          i < j => position(sheetnames, listed[i]) < position(sheetnames, listed[j])

\* The sheet names a handler showed: the list of GET /sheets, the option
\* values of the main page's selector
listed_names(p) ==
    IF p.fn = "get_sheets" THEN p.out.val
    ELSE List([i \in DOMAIN p.out.val |-> p.out.val[i].value])

\* C14: the list GET /sheets returns and the selector of the main page hold,
\* in workbook order, exactly the sheet names of the render mapping that do
\* not end in whitespace followed by a parenthesised number: "12 (1)" is
\* left out, "12" is kept.
C14_ListingFiltered ==
    (probe.fn \in {"get_sheets", "root"} /\ probe.done /\ probe.out.ok) =>
        /\ is_listing_of(listed_names(probe), probe.args.sheetnames)
        /\ <<"1", "2", " ", "(", "1", ")">> \notin Range(listed_names(probe))
        /\ <<"1", "2">> \in Range(probe.args.sheetnames)
                => <<"1", "2">> \in Range(listed_names(probe))

\* The main page of a workbook "12 (1)", "Notes", "12" lists "Notes", "12"
C14_Witness ==
    /\ probe.fn = "root" /\ probe.done /\ probe.out.ok
    /\ probe.args.sheetnames = <<<<"1", "2", " ", "(", "1", ")">>, NameNotes, <<"1", "2">>>>
    /\ listed_names(probe) = <<NameNotes, <<"1", "2">>>>


\* The renderer in which detect_date_rows returns the empty set
render_without_detector(ws, sheet_name, now_year) ==
    LET week_dates == IF sheet_name # <<>> /\ isdigit(sheet_name)
                      THEN get_week_dates(int(sheet_name), NoYear, now_year)
                      ELSE <<>>
        merged == merged_cells_dict(ws.merged)
        rows == List([row_idx \in 1..29 |-> render_row(ws, merged, {}, week_dates, row_idx)])
    IN  IF \E r \in 1..29 : \E i \in DOMAIN rows[r] : ~rows[r][i].ok
        THEN Raised
        ELSE Ok(List([r \in 1..29 |-> List([i \in DOMAIN rows[r] |-> rows[r][i].val])]))

\* The cell of column 1 of the row is emitted: it is no member of a merge
\* range other than its anchor
first_cell_emitted(ws, r) ==
    \A i \in DOMAIN ws.merged :
        (r \in ws.merged[i].min_row..ws.merged[i].max_row /\ ws.merged[i].min_col = 1)
            => r = ws.merged[i].min_row

\* C15: what detect_date_rows returns never changes the markup: sheet_to_html
\* gives the markup of a renderer whose detector returns the empty set; and
\* on a sheet named by a number every emitted cell of column 1 in rows 1..29
\* whose value is empty or a formula, row 1 included, shows the WeekDate at
\* index (row - 2) mod 7.
C15_DetectorIrrelevant ==
    (probe.fn = "sheet_to_html" /\ probe.done) =>
        LET a == probe.args
        IN  /\ probe.out = render_without_detector(a.ws, a.sheet_name, a.now_year)
            /\ (a.sheet_name # <<>> /\ isdigit(a.sheet_name) /\ probe.out.ok) =>
                  \A r \in 1..29 :
                      LET value == ws_cell(a.ws, r, 1).value
                      IN  (first_cell_emitted(a.ws, r) /\ (is_formula(value) \/ is_blank(value)))
                            => probe.out.val[r][1].value =
                                 label(get_week_dates(int(a.sheet_name), NoYear, a.now_year),
                                       ((r - 2) % 7) + 1)

\* A week sheet in which the detector finds date rows (the formulas and the
\* date of column A) and finds none in row 2 (an empty string); row 1, a
\* formula, shows the Sunday and row 2 the Monday of the week
C15_Witness ==
    /\ probe.fn = "sheet_to_html" /\ probe.done /\ probe.out.ok
    /\ probe.args.sheet_name = NameWeek
    /\ {1, 3, 29} \subseteq detect_date_rows(probe.args.ws)
    /\ 2 \notin detect_date_rows(probe.args.ws)
    /\ probe.out.val[1][1].value
         = label(get_week_dates(2, NoYear, probe.args.now_year), 7)
    /\ probe.out.val[2][1].value
         = label(get_week_dates(2, NoYear, probe.args.now_year), 1)

=============================================================================
